---- MODULE Spec2Model ----
(***************************************************************************)
(* Temporal-generalization decoding pipeline:                              *)
(*   scripts/run_decoding.py           _run and its subject/analysis loop  *)
(*   scripts/run_plot_subscore_gat.py  subscore / regression / duration    *)
(*                                     derivations over stored artifacts   *)
(*                                                                         *)
(* Conventions.  Trial positions are 1..n here and 0..n-1 in the source.   *)
(* Factor values are held in hundredths (visibility 0,100,200,300 for      *)
(* range(4); contrast 50,75,100 for [.50,.75,1.]) so that the source's     *)
(* numeric comparisons between the two scales (1 == 1.) are kept.  Angles  *)
(* are held in steps of pi/HalfTurn.  Calls into libraries (the scorer,    *)
(* repeated_spearman, stats) are recorded as the call with its arguments.  *)
(***************************************************************************)
EXTENDS Integers, Sequences, FiniteSets, TLC

VARIABLES
    events,     \* function-level harness: the metadata table handed to the function
    ana,        \* function-level harness: analysis['name']
    fpc,        \* function-level harness: "load", or the function that was applied
    fargs,      \* function-level harness: the arguments of the applied function
    fout,       \* function-level harness: what the function returned or raised
    evts,       \* load('behavior', subject): each subject's trial metadata
    decod,      \* the store, kind 'decod': [gat, analysis, sel, events] by subject, analysis
    score,      \* the store, kind 'score', by subject and analysis: [score, times]
    derived,    \* the store, kind 'score', by analysis and derivation suffix
    runpc,      \* run_decoding's position in its subject and analysis loops
    runlast,    \* the last call of _run: its arguments and what it did
    last,       \* the last call of a derivation: what it loaded, saved, returned
    mat,        \* alignment harness: one subject's score matrix, train x test
    policy,     \* alignment harness: how align_on_diag fills the cells it vacates
    centred,    \* alignment harness: the matrix after alignment and centring
    order,      \* main loop: the analyses in the order of conditions.analyses
    mainpc,     \* main loop: the statement of the loop body that runs next
    mem         \* main loop: the rescalings applied to the arrays in memory

fvars == <<events, ana, fpc, fargs, fout>>

pvars == <<evts, decod, score, derived, runpc, runlast, last>>

avars == <<mat, policy, centred>>

mvars == <<order, mainpc, mem>>

vars == <<events, ana, fpc, fargs, fout,
          evts, decod, score, derived, runpc, runlast, last,
          mat, policy, centred, order, mainpc, mem>>

-----------------------------------------------------------------------------
(* Values                                                                  *)

NaN == -1

\* x == v on a column that may hold NaN (NaN == v is False)
Eq(x, v) == x # NaN /\ x = v

\* x >= v on a column that may hold NaN (NaN >= v is False)
Ge(x, v) == x # NaN /\ x >= v

\* the analyses kept by run_plot_subscore_gat
PlotAnalyses == <<"target_present", "target_circAngle">>

\* factors = dict(visibility=['detect_button', range(4)],
\*                contrast=['target_contrast', [.50, .75, 1.]])
FactorKey(factor) ==
    IF factor = "visibility" THEN "detect_button" ELSE "target_contrast"

FactorValues(factor) ==
    IF factor = "visibility" THEN <<0, 100, 200, 300>> ELSE <<50, 75, 100>>

Factors == <<"visibility", "contrast">>

\* range(4) of the visibility loop of _subscore_pipeline
VisLevels == <<0, 100, 200, 300>>

MinLevelTrials == 5

MinSubscoreTrials == 5

MinDistinctLabels == 2

MaxSkippedCovTrials == 5

-----------------------------------------------------------------------------
(* numpy helpers                                                           *)

Range(s) == {s[i] : i \in 1..Len(s)}

\* np.array(...): the listed elements as an array
Array(f) == f \o <<>>

\* the members of a set of positions in ascending order, as np.where(cond)[0]
\* and np.intersect1d list them
Ascending(S) ==
    Array([k \in 1..Cardinality(S) |->
              CHOOSE i \in S : Cardinality({j \in S : j < i}) = k - 1])

Rows(tbl) == 1..Len(tbl)

\* np.r_[a, b]: concatenation
R_(a, b) == a \o b

\* np.intersect1d(a, b): the sorted, unique common values
Intersect1d(a, b) == Ascending(Range(a) \cap Range(b))

\* events[column] of one row
Col(t, column) ==
    CASE column = "detect_button" -> t.detect_button
      [] column = "target_contrast" -> t.target_contrast
      [] column = "target_present" -> IF t.target_present THEN 1 ELSE 0
      [] column = "target_circAngle" -> t.target_circAngle
      [] column = "probe_phase" -> t.probe_phase

\* a target-present row of the metadata
PresentRow(v, c, g) ==
    [target_present |-> TRUE, detect_button |-> v, target_contrast |-> c,
     target_circAngle |-> g, probe_phase |-> 0]

\* a target-absent row: contrast and angle are undefined; the visibility
\* report is given as on every trial, or missing
AbsentRow(v) ==
    [target_present |-> FALSE, detect_button |-> v, target_contrast |-> NaN,
     target_circAngle |-> NaN, probe_phase |-> 0]

\* np.unique(y_true[sel])
Unique(tbl, name, sel) == {Col(tbl[sel[i]], name) : i \in 1..Len(sel)}

-----------------------------------------------------------------------------
(* _subscore_pipeline, the per-subject visibility loop                     *)

NaNCell == [scored |-> FALSE, sel |-> <<>>]

\* subscore(gat, sel) / scorer(y_true=y_true[sel], y_pred=y_pred[sel])
ScorerCall(sel) == [scored |-> TRUE, sel |-> sel]

\* np.where(events['target_present'] == False)[0]
AbsentTrials(tbl) == Ascending({i \in Rows(tbl) : tbl[i].target_present = FALSE})

PipelineCell(tbl, name, vis) ==
    LET sel == Ascending({i \in Rows(tbl) : Eq(tbl[i].detect_button, vis)})
    IN  IF Len(sel) < MinLevelTrials
        THEN NaNCell
        ELSE IF name = "target_present"
             THEN ScorerCall(R_(sel, AbsentTrials(tbl)))
             ELSE ScorerCall(sel)

PipelineScores(tbl, name) ==
    Array([v \in 1..Len(VisLevels) |-> PipelineCell(tbl, name, VisLevels[v])])

-----------------------------------------------------------------------------
(* _subscore                                                               *)

\* y_pred[sel] with a position past the rows of y_pred
IndexErrorCell == [scored |-> TRUE, sel |-> <<0>>]

\* one pass of the loop over the factor's values; y_pred has npred rows, so
\* y_pred[sel] raises IndexError when sel reaches past them
SubscoreCell(tbl, name, factor, value, npred) ==
    LET level == Ascending({i \in Rows(tbl) :
                               Eq(Col(tbl[i], FactorKey(factor)), value)})
        sel == IF name = "target_present"
               THEN R_(level, AbsentTrials(tbl))
               ELSE level
    IN  IF Len(sel) < MinSubscoreTrials
           \/ Cardinality(Unique(tbl, name, sel)) < MinDistinctLabels
        THEN NaNCell
        ELSE IF \E i \in 1..Len(sel) : sel[i] > npred
             THEN IndexErrorCell
             ELSE ScorerCall(sel)

Subscore(tbl, name, factor, npred) ==
    LET values == FactorValues(factor)
        cells == Array([ii \in 1..Len(values) |->
                           SubscoreCell(tbl, name, factor, values[ii], npred)])
    IN  IF \E ii \in 1..Len(values) : cells[ii] = IndexErrorCell
        THEN [exc |-> "IndexError", scores |-> <<>>]
        ELSE [exc |-> "none", scores |-> cells]

-----------------------------------------------------------------------------
(* _subregress                                                             *)

\* 'circAngle' in analysis['name']
IsCirc(name) == name \in {"target_circAngle", "probe_circAngle"}

\* the single-trial error, in angle steps for circular analyses:
\*   y_error = (y_pred - y_true) % (2 * np.pi); y_error = np.abs(np.pi - y_error)
\* else y_error = np.abs(y_pred - y_true)
HalfTurn == 4

Abs(x) == IF x < 0 THEN -x ELSE x

SingleTrialError(name, y_pred, y_true) ==
    IF IsCirc(name)
    THEN Abs(HalfTurn - ((y_pred - y_true) % (2 * HalfTurn)))
    ELSE Abs(y_pred - y_true)

\* repeated_spearman(y_error[sel], events[key][sel])
Spearman(name, sel, key) ==
    [nan |-> FALSE,
     x |-> IF IsCirc(name) THEN "circular_error" ELSE "absolute_error",
     sel |-> sel, y |-> key]

NaNRow == [nan |-> TRUE, x |-> "", sel |-> <<>>, y |-> ""]

\* np.nanmean(R, axis=0): the mean of the rows that are not NaN, NaN when none is
NanMean(R) ==
    LET kept == Ascending({ii \in 1..Len(R) : ~R[ii].nan})
    IN  [exc |-> "none", nan |-> (Len(kept) = 0),
         mean_of |-> Array([k \in 1..Len(kept) |-> R[kept[k]]])]

\* cov_factor = 'target_contrast' if factor == 'visibility' else 'detect_button'
CovFactor(factor) ==
    IF factor = "visibility" THEN "target_contrast" ELSE "detect_button"

\* cov_key, cov_values = factors[factor]
CovValues(factor) == FactorValues(factor)

\* Do the prediction vary across visibilities/contrasts?
Eligible(tbl, factor) ==
    Intersect1d(
        Ascending({i \in Rows(tbl) : tbl[i].target_present = TRUE}),
        Ascending({i \in Rows(tbl) : Ge(Col(tbl[i], FactorKey(factor)),
                                        FactorValues(factor)[1])}))

CovSel(tbl, factor, cov_value) ==
    Intersect1d(
        Ascending({i \in Rows(tbl) :
                      Eq(Col(tbl[i], CovFactor(factor)), cov_value)}),
        Eligible(tbl, factor))

CovRow(tbl, name, factor, cov_value) ==
    LET cov_sel == CovSel(tbl, factor, cov_value)
    IN  IF Len(cov_sel) <= MaxSkippedCovTrials
        THEN NaNRow
        ELSE Spearman(name, cov_sel, FactorKey(factor))

\* _subregress without the dimension check of lines 134-135
SubregressUnchecked(tbl, name, factor, independent, npred) ==
    IF independent
    THEN NanMean(Array([ii \in 1..Len(CovValues(factor)) |->
                     CovRow(tbl, name, factor, CovValues(factor)[ii])]))
    ELSE [exc |-> "none", nan |-> FALSE,
          mean_of |-> <<Spearman(name, Eligible(tbl, factor),
                                 FactorKey(factor))>>]

Subregress(tbl, name, factor, independent, npred) ==
    IF npred # Len(tbl)
    THEN [exc |-> "ValueError", nan |-> FALSE, mean_of |-> <<>>]
    ELSE IF independent
         THEN NanMean(Array([ii \in 1..Len(CovValues(factor)) |->
                          CovRow(tbl, name, factor, CovValues(factor)[ii])]))
         ELSE [exc |-> "none", nan |-> FALSE,
               mean_of |-> <<Spearman(name, Eligible(tbl, factor),
                                      FactorKey(factor))>>]


-----------------------------------------------------------------------------
(* The artifact store and run_decoding.py                                  *)

NSubjects == 2

\* config.subjects, in loop order
Subjects == 1..NSubjects

\* conditions.analyses, in loop order
Analyses == <<"target_present", "target_circAngle", "probe_phase">>

\* analysis['query']: None, or a query that keeps the target-present trials
AnalysisQuery(name, t) ==
    IF name = "target_circAngle" THEN t.target_present ELSE TRUE

\* analysis['condition']: the column holding the to-be-predicted value
AnalysisCondition(name) == name

\* the selection by the query alone, without the filter of line 23
SelByQuery(tbl, name) ==
    Ascending({i \in Rows(tbl) : AnalysisQuery(name, tbl[i])})

\* sel = range(len(events)) if query is None else events.query(query).index
\* sel = [ii for ii in sel if ~np.isnan(events[condition][sel][ii])]
Sel(tbl, name) ==
    Ascending({i \in Rows(tbl) :
                  /\ AnalysisQuery(name, tbl[i])
                  /\ Col(tbl[i], AnalysisCondition(name)) # NaN})

\* gat.estimators_ is kept
KeepsEstimators(name) == name \in {"probe_phase", "target_circAngle"}

\* gat.y_pred_ kept for the circular analyses only
KeepsYPredOfAngles(name) == name \in {"target_circAngle", "probe_circAngle"}

\* gat.y_pred_ is kept
KeepsYPred(name) ==
    name \in {"target_present", "target_circAngle", "probe_circAngle"}

NoDecod ==
    [exists |-> FALSE, estimators |-> FALSE, y_pred |-> NaN,
     trials |-> <<>>, sel |-> <<>>, events |-> <<>>]

NoScore == [exists |-> FALSE, scored |-> <<>>]

\* save([gat, analysis, sel, events], 'decod', ...): y_pred is the number of
\* trials of gat.y_pred_, NaN when gat.y_pred_ is None; trials lists the
\* trials the gat was fitted on and predicted, gat.fit(epochs[sel], ...) and
\* gat.score(epochs[sel], ...), in the order of its predictions
DecodArtifact(tbl, name, sel) ==
    [exists |-> TRUE,
     estimators |-> KeepsEstimators(name),
     y_pred |-> IF KeepsYPred(name) THEN Len(sel) ELSE NaN,
     trials |-> sel,
     sel |-> sel,
     events |-> tbl]

\* save([score, epochs.times], 'score', ...): score = gat.score(epochs[sel], y[sel])
ScoreBundle(sel) == [exists |-> TRUE, scored |-> sel]

NoRun == [called |-> FALSE, subject |-> 0, analysis |-> "", nsel |-> 0,
          saved |-> FALSE, exc |-> "none"]

\* _run without the abort of lines 31-32
RunWithoutAbort(s, name) ==
    /\ decod' = [decod EXCEPT ![s][name] =
                     DecodArtifact(evts[s], name, Sel(evts[s], name))]
    /\ score' = [score EXCEPT ![s][name] = ScoreBundle(Sel(evts[s], name))]
    /\ runlast' = [called |-> TRUE, subject |-> s, analysis |-> name,
                   nsel |-> Len(Sel(evts[s], name)), saved |-> TRUE,
                   exc |-> "none"]

\* _run(epochs, events, analysis) for the subject and analysis of the loops
Run(s, name) ==
    LET sel == Sel(evts[s], name)
    IN  IF Len(sel) = 0
        THEN /\ runlast' = [called |-> TRUE, subject |-> s, analysis |-> name,
                            nsel |-> 0, saved |-> FALSE, exc |-> "none"]
             /\ UNCHANGED <<decod, score>>
        ELSE /\ decod' = [decod EXCEPT ![s][name] =
                                          DecodArtifact(evts[s], name, sel)]
             /\ score' = [score EXCEPT ![s][name] = ScoreBundle(sel)]
             /\ runlast' = [called |-> TRUE, subject |-> s, analysis |-> name,
                            nsel |-> Len(sel), saved |-> TRUE, exc |-> "none"]

\* for s, subject in enumerate(subjects): ... for analysis in analyses: _run(...)
RunDecoding ==
    /\ runpc.s <= NSubjects
    /\ Run(runpc.s, Analyses[runpc.a])
    /\ runpc' = IF runpc.a < Len(Analyses)
                THEN [s |-> runpc.s, a |-> runpc.a + 1]
                ELSE [s |-> runpc.s + 1, a |-> 1]
    /\ UNCHANGED <<evts, derived, last>>
    /\ UNCHANGED fvars
    /\ UNCHANGED avars
    /\ UNCHANGED mvars

-----------------------------------------------------------------------------
(* run_plot_subscore_gat.py: the derivations over the stored artifacts     *)

\* the suffixes of the derived score artifacts
Derivations == {"-vis", "-continuous", "-toi", "-Rvis", "-duration-toi"}

NTois == 2

\* conditions.tois, in order
Tois == 1..NTois

\* what one subject contributes to a derivation, or the exception raised
\* while computing it
SubjectResult(exc, cells, R) == [exc |-> exc, cells |-> cells, R |-> R]

Raised(exc) == SubjectResult(exc, <<>>, <<>>)

\* the first len(events_sel) rows of events, events_sel not applied
IlocUnselected(art) == SubSeq(art.events, 1, Len(art.sel))

\* events = events.iloc[events_sel].reset_index()
Iloc(art) == Array([k \in 1..Len(art.sel) |-> art.events[art.sel[k]]])

IlocFails(art) == \E k \in 1..Len(art.sel) : art.sel[k] > Len(art.events)

\* y_pred[sel] / gat.y_pred_[:, :, sel, :] reaches past the stored predictions
PastPredictions(art, sel) == \E i \in 1..Len(sel) : sel[i] > art.y_pred

\* events.iloc[events_sel] as the derivations see it; the selection failing
\* to index the table is reported by SubjectOutcome
Selected(art) == IF IlocFails(art) THEN <<>> ELSE Iloc(art)

\* _subscore_pipeline, lines 41-59, for one subject
VisSubject(art, tbl, name) ==
    LET cells == PipelineScores(tbl, name)
    IN  IF \E v \in 1..Len(cells) :
               cells[v].scored /\ PastPredictions(art, cells[v].sel)
        THEN Raised("IndexError")
        ELSE SubjectResult("none", <<cells>>, <<>>)

\* the loop over ['visibility', 'contrast'] of _analyze_continuous and
\* _analyze_toi: _subscore, then _subregress with independent=True
FactorLoop(tbl, name, npred) ==
    LET sv == Subscore(tbl, name, "visibility", npred)
        rv == Subregress(tbl, name, "visibility", TRUE, npred)
        sc == Subscore(tbl, name, "contrast", npred)
        rc == Subregress(tbl, name, "contrast", TRUE, npred)
    IN  IF sv.exc # "none" THEN Raised(sv.exc)
        ELSE IF rv.exc # "none" THEN Raised(rv.exc)
        ELSE IF sc.exc # "none" THEN Raised(sc.exc)
        ELSE IF rc.exc # "none" THEN Raised(rc.exc)
        ELSE SubjectResult("none", <<sv.scores, sc.scores>>, <<rv, rc>>)

\* _analyze_continuous, lines 189-199, for one subject
ContinuousSubject(art, tbl, name) == FactorLoop(tbl, name, art.y_pred)

\* _analyze_toi, lines 223-236, for one subject: the factor loop once per toi
\* on the predictions averaged over the toi
ToiSubject(art, tbl, name) ==
    IF FactorLoop(tbl, name, art.y_pred).exc # "none"
    THEN FactorLoop(tbl, name, art.y_pred)
    ELSE SubjectResult("none",
            Array([k \in 1..(2 * NTois) |->
                      FactorLoop(tbl, name, art.y_pred).cells[((k - 1) % 2) + 1]]),
            Array([k \in 1..(2 * NTois) |->
                      FactorLoop(tbl, name, art.y_pred).R[((k - 1) % 2) + 1]]))

\* _correlate, lines 254-273, for one subject
CorrelateSubject(art, tbl, name) ==
    LET sel == Ascending({i \in Rows(tbl) : tbl[i].target_present})
    IN  IF PastPredictions(art, sel) THEN Raised("IndexError")
        ELSE SubjectResult("none", <<>>,
                <<[exc |-> "none", nan |-> FALSE,
                   mean_of |-> <<[nan |-> FALSE, x |-> "y_pred",
                                  sel |-> sel, y |-> "detect_button"]>>]>>)

PerSubject(d, art, tbl, name) ==
    CASE d = "-vis" -> VisSubject(art, tbl, name)
      [] d = "-continuous" -> ContinuousSubject(art, tbl, name)
      [] d = "-toi" -> ToiSubject(art, tbl, name)
      [] d = "-Rvis" -> CorrelateSubject(art, tbl, name)

\* the attribute a pruned 'decod' artifact lacks when the derivation reads it
PrunedError(d) == IF d = "-Rvis" THEN "TypeError" ELSE "AttributeError"

\* a subject's pass that fills in nothing when the subject's 'decod' artifact
\* is missing
SubjectOutcomeSkipping(d, s, tbl, name) ==
    IF ~decod[s][name].exists THEN SubjectResult("none", <<>>, <<>>)
    ELSE IF IlocFails(decod[s][name]) THEN Raised("IndexError")
    ELSE IF decod[s][name].y_pred = NaN THEN Raised(PrunedError(d))
    ELSE PerSubject(d, decod[s][name], tbl, name)

\* load('decod', subject=subject, analysis=analysis['name']) and the
\* subject's pass of the loop, tbl being the subject's selected events
SubjectOutcome(d, s, tbl, name) ==
    IF ~decod[s][name].exists THEN Raised("IOError")
    ELSE IF IlocFails(decod[s][name]) THEN Raised("IndexError")
    ELSE IF decod[s][name].y_pred = NaN THEN Raised(PrunedError(d))
    ELSE PerSubject(d, decod[s][name], tbl, name)

\* the first subject, in loop order, whose pass raises; the last subject if
\* none does
FirstFailure(outs) ==
    IF \E s \in 1..Len(outs) : outs[s].exc # "none"
    THEN CHOOSE s \in 1..Len(outs) :
            /\ outs[s].exc # "none"
            /\ \A r \in 1..(s - 1) : outs[r].exc = "none"
    ELSE Len(outs)

NoDerived == [exists |-> FALSE, aligned |-> FALSE, rows |-> <<>>]

NoCall == [fn |-> "", analysis |-> "", outcome |-> "none", exc |-> "none",
           loads |-> {}, saves |-> {}, ret |-> NoDerived]

\* if os.path.exists(fname): return load('score', analysis=ana_name)
CacheHit(fn, d, name) ==
    /\ derived[name][d].exists
    /\ last' = [fn |-> fn, analysis |-> name, outcome |-> "hit",
                exc |-> "none", loads |-> {<<"score", 0>>}, saves |-> {},
                ret |-> derived[name][d]]
    /\ UNCHANGED derived

\* the body of a derivation over the subjects' 'decod' artifacts: gather the
\* data of every subject, run the statistics, save and return
Recompute(fn, d, name) ==
    /\ \E tbls \in {Array([s \in Subjects |-> Selected(decod[s][name])])} :
       \E outs \in {Array([s \in Subjects |->
                              SubjectOutcome(d, s, tbls[s], name)])} :
          LET f == FirstFailure(outs)
              value == [exists |-> TRUE, aligned |-> FALSE,
                        rows |-> Array([s \in Subjects |->
                                   [cells |-> outs[s].cells, R |-> outs[s].R]])]
          IN  IF outs[f].exc # "none"
              THEN /\ last' = [fn |-> fn, analysis |-> name,
                               outcome |-> "raised", exc |-> outs[f].exc,
                               loads |-> {<<"decod", r>> : r \in 1..f},
                               saves |-> {}, ret |-> NoDerived]
                   /\ UNCHANGED derived
              ELSE /\ last' = [fn |-> fn, analysis |-> name,
                               outcome |-> "computed", exc |-> "none",
                               loads |-> {<<"decod", r>> : r \in 1..f},
                               saves |-> {d}, ret |-> value]
                   /\ derived' = [derived EXCEPT ![name][d] = value]

\* a derivation without the os.path.exists test
DerivationUncached(fn, d, name) == Recompute(fn, d, name)

Derivation(fn, d, name) ==
    IF derived[name][d].exists
    THEN CacheHit(fn, d, name)
    ELSE Recompute(fn, d, name)

PlotFrame ==
    /\ UNCHANGED <<evts, decod, score, runpc, runlast>>
    /\ UNCHANGED fvars
    /\ UNCHANGED avars
    /\ UNCHANGED mvars

SubscorePipeline ==
    /\ \E name \in Range(PlotAnalyses) : Derivation("_subscore_pipeline", "-vis", name)
    /\ PlotFrame

AnalyzeContinuous ==
    /\ \E name \in Range(PlotAnalyses) :
          Derivation("_analyze_continuous", "-continuous", name)
    /\ PlotFrame

AnalyzeToi ==
    /\ \E name \in Range(PlotAnalyses) : Derivation("_analyze_toi", "-toi", name)
    /\ PlotFrame

\* gat.y_pred_ = gat.y_pred_[:, :, sel, :]: the predictions _correlate keeps
\* in memory, those of the target-present trials
PresentPredictions(art) ==
    IF IlocFails(art) THEN art.y_pred
    ELSE Cardinality({k \in 1..Len(art.sel) :
                         art.events[art.sel[k]].target_present})

\* _correlate saving each gat it modified back to the 'decod' store
CorrelateSavingGat ==
    /\ \E name \in Range(PlotAnalyses) :
          /\ Derivation("_correlate", "-Rvis", name)
          /\ decod' = [s \in Subjects |->
                          [decod[s] EXCEPT ![name] =
                              IF decod[s][name].exists
                              THEN [decod[s][name] EXCEPT !.y_pred =
                                       PresentPredictions(decod[s][name])]
                              ELSE @]]
    /\ UNCHANGED <<evts, score, runpc, runlast>>
    /\ UNCHANGED fvars
    /\ UNCHANGED avars
    /\ UNCHANGED mvars

Correlate ==
    /\ \E name \in Range(PlotAnalyses) : Derivation("_correlate", "-Rvis", name)
    /\ PlotFrame

\* scores = [align_on_diag(score) for score in scores]; np.roll(...); the
\* average over each toi and its statistics
DurationValue(vis) == [exists |-> TRUE, aligned |-> TRUE, rows |-> vis.rows]

\* _duration_toi(analysis)
DurationToiBody(name) ==
    /\ ~derived[name]["-duration-toi"].exists
    /\ IF ~derived[name]["-vis"].exists
       THEN /\ last' = [fn |-> "_duration_toi", analysis |-> name,
                        outcome |-> "raised", exc |-> "IOError",
                        loads |-> {<<"score", 0>>}, saves |-> {},
                        ret |-> NoDerived]
            /\ UNCHANGED derived
       ELSE /\ last' = [fn |-> "_duration_toi", analysis |-> name,
                        outcome |-> "computed", exc |-> "none",
                        loads |-> {<<"score", 0>>},
                        saves |-> {"-duration-toi"},
                        ret |-> DurationValue(derived[name]["-vis"])]
            /\ derived' = [derived EXCEPT ![name]["-duration-toi"] =
                                 DurationValue(derived[name]["-vis"])]

DurationToi ==
    /\ \E name \in Range(PlotAnalyses) :
          \/ CacheHit("_duration_toi", "-duration-toi", name)
          \/ DurationToiBody(name)
    /\ PlotFrame

-----------------------------------------------------------------------------
(* The pipeline: run_decoding.py fills the store subject by subject while  *)
(* the derivations of run_plot_subscore_gat.py are called in any order.    *)

ARow == AbsentRow(0)

PRow == PresentRow(100, 100, 0)

\* a target-present trial whose angle is undefined
UndefinedAngleRow ==
    [target_present |-> TRUE, detect_button |-> 100, target_contrast |-> 100,
     target_circAngle |-> NaN, probe_phase |-> 0]

\* the metadata tables a subject is drawn from
SubjectTables == {<<>>, <<ARow>>, <<ARow, UndefinedAngleRow, PRow>>}

EmptyStore ==
    /\ decod = [s \in Subjects |-> [name \in Range(Analyses) |-> NoDecod]]
    /\ score = [s \in Subjects |-> [name \in Range(Analyses) |-> NoScore]]
    /\ derived = [name \in Range(PlotAnalyses) |->
                     [d \in Derivations |-> NoDerived]]

HarnessIdle ==
    /\ events = <<>>
    /\ ana = ""
    /\ fpc = "idle"
    /\ fargs = [factor |-> "", independent |-> FALSE, y_pred |-> 0, y_true |-> 0]
    /\ fout = [exc |-> "none", scores |-> <<>>, nan |-> FALSE,
               mean_of |-> <<>>, err |-> 0]

\* no matrix is being aligned
AlignIdle ==
    /\ mat = <<>>
    /\ policy = [fill |-> "", passes |-> 0]
    /\ centred = <<>>

\* how many times each array in memory has been divided by 2; plotted is the
\* count of all_scores when its figures were made, tfr that of the scores of
\* plot_time_freqs.py
NoMem ==
    [all_scores |-> 0, all_durations |-> 0, toi_visibility |-> 0,
     toi_contrast |-> 0, plotted |-> 0, tfr |-> 0]

\* the main loop of run_plot_subscore_gat.py has not started
MainIdle ==
    /\ order = <<>>
    /\ mainpc = "idle"
    /\ mem = NoMem

PipelineIdle ==
    /\ evts = [s \in Subjects |-> <<>>]
    /\ EmptyStore
    /\ runpc = [s |-> NSubjects + 1, a |-> 1]
    /\ runlast = NoRun
    /\ last = NoCall

Init ==
    /\ evts \in [Subjects -> SubjectTables]
    /\ EmptyStore
    /\ runpc = [s |-> 1, a |-> 1]
    /\ runlast = NoRun
    /\ last = NoCall
    /\ HarnessIdle
    /\ AlignIdle
    /\ MainIdle

Next ==
    \/ RunDecoding
    \/ SubscorePipeline
    \/ AnalyzeContinuous
    \/ AnalyzeToi
    \/ Correlate
    \/ DurationToi

Spec == Init /\ [][Next]_vars

-----------------------------------------------------------------------------
(* The main loop of run_plot_subscore_gat.py, run (and run again) while or *)
(* after run_decoding.py fills the store.                                  *)

\* the loop body with the duration plot before the subscore plot
LoopBodyDurationFirst ==
    <<"_analyze_continuous", "_duration_toi", "_subscore_pipeline",
      "_correlate", "_analyze_toi", "_subscore_pipeline:stats",
      "_correlate:stats", "table.to_html">>

\* the statements of the loop body that call a derivation or end the body
LoopBody ==
    <<"_analyze_continuous", "_subscore_pipeline", "_duration_toi",
      "_correlate", "_analyze_toi", "_subscore_pipeline:stats",
      "_correlate:stats", "table.to_html">>

StepIndex(pc) == CHOOSE k \in 1..Len(LoopBody) : LoopBody[k] = pc

\* the statement after pc; the last one never returns
NextStep(pc) ==
    IF StepIndex(pc) < Len(LoopBody) THEN LoopBody[StepIndex(pc) + 1] ELSE "idle"

\* the orders conditions.analyses may list the two analyses in
AnalysisOrders ==
    {<<PlotAnalyses[1], PlotAnalyses[2]>>, <<PlotAnalyses[2], PlotAnalyses[1]>>}

\* the analysis of the running iteration
Current == order[1]

\* x /= 2. under if 'circAngle' in analysis['name'], n times
Halvings(n) == IF IsCirc(Current) THEN n ELSE 0

MainFrame ==
    /\ UNCHANGED <<evts, decod, score, runpc, runlast, order>>
    /\ UNCHANGED fvars
    /\ UNCHANGED avars

\* python run_plot_subscore_gat.py: the loop starts with the first analysis
StartMain ==
    /\ mainpc = "idle"
    /\ mainpc' = LoopBody[1]
    /\ mem' = [NoMem EXCEPT !.tfr = mem.tfr]
    /\ UNCHANGED <<derived, last>>
    /\ MainFrame

\* a statement of the loop body: the call, then the rescaling of what it
\* returned; an exception ends the script
Statement(pc, call, rescaled) ==
    /\ mainpc = pc
    /\ call
    /\ IF last'.outcome = "raised"
       THEN mainpc' = "idle" /\ mem' = mem
       ELSE mainpc' = NextStep(pc) /\ mem' = rescaled
    /\ MainFrame

\* line 317
MainContinuous ==
    Statement("_analyze_continuous",
              Derivation("_analyze_continuous", "-continuous", Current), mem)

\* lines 328-330, and the figures of lines 331-383
MainSubscore ==
    Statement("_subscore_pipeline",
              Derivation("_subscore_pipeline", "-vis", Current),
              [mem EXCEPT !.all_scores = Halvings(1), !.plotted = Halvings(1)])

\* _duration_toi(analysis)
DurationCall(name) ==
    IF derived[name]["-duration-toi"].exists
    THEN CacheHit("_duration_toi", "-duration-toi", name)
    ELSE DurationToiBody(name)

\* lines 387-390
MainDuration ==
    Statement("_duration_toi", DurationCall(Current),
              [mem EXCEPT !.all_durations = Halvings(1)])

\* line 414
MainCorrelate ==
    Statement("_correlate", Derivation("_correlate", "-Rvis", Current), mem)

\* lines 466-471, and the figures and tables of lines 482-542
MainToi ==
    Statement("_analyze_toi", Derivation("_analyze_toi", "-toi", Current),
              [mem EXCEPT !.toi_visibility = Halvings(1 + 1),
                          !.toi_contrast = 0])

\* line 546: all_scores is bound to what the call returns
MainSubscoreStats ==
    Statement("_subscore_pipeline:stats",
              Derivation("_subscore_pipeline", "-vis", Current),
              [mem EXCEPT !.all_scores = 0])

\* line 547
MainCorrelateStats ==
    Statement("_correlate:stats",
              Derivation("_correlate", "-Rvis", Current), mem)

\* line 589: table is a list, table.to_html() raises
MainTable ==
    Statement("table.to_html",
              /\ last' = [fn |-> "table.to_html", analysis |-> Current,
                          outcome |-> "raised", exc |-> "AttributeError",
                          loads |-> {}, saves |-> {}, ret |-> NoDerived]
              /\ UNCHANGED derived,
              mem)

\* plot_time_freqs.py, lines 28-31: scores /= 2 for a circAngle analysis
PlotTimeFreqs ==
    /\ mem.tfr = 0
    /\ mem' = [mem EXCEPT !.tfr = 1]
    /\ UNCHANGED <<derived, last, mainpc>>
    /\ MainFrame

MainInit ==
    /\ evts \in [Subjects -> SubjectTables]
    /\ EmptyStore
    /\ runpc = [s |-> 1, a |-> 1]
    /\ runlast = NoRun
    /\ last = NoCall
    /\ events = <<>>
    /\ ana = ""
    /\ fpc = "idle"
    /\ fargs = [factor |-> "", independent |-> FALSE, y_pred |-> 0, y_true |-> 0]
    /\ fout = [exc |-> "none", scores |-> <<>>, nan |-> FALSE,
               mean_of |-> <<>>, err |-> 0]
    /\ AlignIdle
    /\ order \in AnalysisOrders
    /\ mainpc = "idle"
    /\ mem = NoMem

MainNext ==
    \/ RunDecoding
    \/ StartMain
    \/ MainContinuous
    \/ MainSubscore
    \/ MainDuration
    \/ MainCorrelate
    \/ MainToi
    \/ MainSubscoreStats
    \/ MainCorrelateStats
    \/ MainTable
    \/ PlotTimeFreqs

SpecMain == MainInit /\ [][MainNext]_vars

-----------------------------------------------------------------------------
(* The derivations over a store as found on disk: the 'decod' artifacts    *)
(* hold as many predictions as selected trials, or one more, or one less.  *)

\* a table with no scored level, and one whose lowest visibility level is
\* scored for target_present
StoredTables ==
    {<<UndefinedAngleRow, ARow, PRow>>, <<PresentRow(0, 100, 0), ARow, ARow>>}

\* the difference between the number of predictions and of selected trials
PredictionOffsets == {0 - 1, 0, 1}

StoredArtifact(tbl, name, offset) ==
    [DecodArtifact(tbl, name, Sel(tbl, name)) EXCEPT
        !.y_pred = Len(Sel(tbl, name)) + offset]

ArtInit ==
    /\ evts = [s \in Subjects |-> <<>>]
    /\ \E tbls \in [Subjects -> StoredTables],
          offsets \in [Subjects -> PredictionOffsets] :
          decod = [s \in Subjects |->
                      [name \in Range(Analyses) |->
                          IF name \in Range(PlotAnalyses)
                          THEN StoredArtifact(tbls[s], name, offsets[s])
                          ELSE NoDecod]]
    /\ score = [s \in Subjects |-> [name \in Range(Analyses) |-> NoScore]]
    /\ derived = [name \in Range(PlotAnalyses) |->
                     [d \in Derivations |-> NoDerived]]
    /\ runpc = [s |-> NSubjects + 1, a |-> 1]
    /\ runlast = NoRun
    /\ last = NoCall
    /\ HarnessIdle
    /\ AlignIdle
    /\ MainIdle

ArtNext == AnalyzeContinuous \/ AnalyzeToi

SpecArt == ArtInit /\ [][ArtNext]_vars

-----------------------------------------------------------------------------
(* Function-level harness: a metadata table is drawn row by row, then one  *)
(* of _subscore_pipeline's visibility loop, _subscore or _subregress is    *)
(* applied to it.  The three functions do not depend on the order of the   *)
(* rows, so the rows are drawn in one canonical order.                     *)

MaxTrials == 7

\* the rows left by events.iloc[events_sel]: the label of the analysis is
\* never NaN (run_decoding.py line 23)
RowKinds(name) ==
    IF name = "target_present"
    THEN <<PresentRow(0, 50, 0), PresentRow(0, 100, 0),
           PresentRow(100, 50, 0), PresentRow(100, 100, 0),
           AbsentRow(0), AbsentRow(100), AbsentRow(NaN)>>
    ELSE <<PresentRow(0, 50, 0), PresentRow(0, 50, 1),
           PresentRow(0, 100, 0), PresentRow(0, 100, 1),
           PresentRow(100, 50, 0), PresentRow(100, 50, 1),
           PresentRow(100, 100, 0), PresentRow(100, 100, 1)>>

KindOf(name, row) ==
    CHOOSE k \in 1..Len(RowKinds(name)) : RowKinds(name)[k] = row

\* the harness's argument and result records before any call
NoArgs == [factor |-> "", independent |-> FALSE, y_pred |-> 0, y_true |-> 0]

NoResult ==
    [exc |-> "none", scores |-> <<>>, nan |-> FALSE, mean_of |-> <<>>, err |-> 0]

FnInit ==
    /\ events = <<>>
    /\ ana \in Range(PlotAnalyses)
    /\ fpc = "load"
    /\ fargs = NoArgs
    /\ fout = NoResult
    /\ PipelineIdle
    /\ AlignIdle
    /\ MainIdle

LoadTrial ==
    /\ fpc = "load"
    /\ Len(events) < MaxTrials
    /\ \E k \in 1..Len(RowKinds(ana)) :
          /\ IF Len(events) = 0 THEN TRUE
                                 ELSE k >= KindOf(ana, events[Len(events)])
          /\ events' = Append(events, RowKinds(ana)[k])
    /\ UNCHANGED <<ana, fpc, fargs, fout>>
    /\ UNCHANGED pvars
    /\ UNCHANGED avars
    /\ UNCHANGED mvars

CallPipelineScores ==
    /\ fpc = "load"
    /\ fpc' = "_subscore_pipeline"
    /\ fout' = [NoResult EXCEPT !.scores = PipelineScores(events, ana)]
    /\ UNCHANGED <<events, ana, fargs>>
    /\ UNCHANGED pvars
    /\ UNCHANGED avars
    /\ UNCHANGED mvars

CallSubscore ==
    /\ fpc = "load"
    /\ \E factor \in Range(Factors) :
          LET r == Subscore(events, ana, factor, Len(events))
          IN  /\ fpc' = "_subscore"
              /\ fargs' = [NoArgs EXCEPT !.factor = factor]
              /\ fout' = [NoResult EXCEPT !.exc = r.exc, !.scores = r.scores]
    /\ UNCHANGED <<events, ana>>
    /\ UNCHANGED pvars
    /\ UNCHANGED avars
    /\ UNCHANGED mvars

CallSubregress ==
    /\ fpc = "load"
    /\ \E factor \in Range(Factors), independent \in BOOLEAN :
          LET r == Subregress(events, ana, factor, independent, Len(events))
          IN  /\ fpc' = "_subregress"
              /\ fargs' = [NoArgs EXCEPT !.factor = factor,
                                         !.independent = independent]
              /\ fout' = [NoResult EXCEPT !.exc = r.exc, !.nan = r.nan,
                                          !.mean_of = r.mean_of]
    /\ UNCHANGED <<events, ana>>
    /\ UNCHANGED pvars
    /\ UNCHANGED avars
    /\ UNCHANGED mvars

FnNext == LoadTrial \/ CallPipelineScores \/ CallSubscore \/ CallSubregress

SpecFn == FnInit /\ [][FnNext]_vars

-----------------------------------------------------------------------------
(* Single-trial error harness: one (predicted, true) pair is drawn and the *)
(* error of _subregress is computed for it.                                *)

\* true angles lie in [0, 2 pi), predicted angles (np.angle) in [-pi, pi]
TrueAngles == 0..(2 * HalfTurn - 1)

PredAngles == (0 - HalfTurn)..HalfTurn

ErrInit ==
    /\ events = <<>>
    /\ ana \in Range(PlotAnalyses)
    /\ fpc = "pair"
    /\ fargs \in {[NoArgs EXCEPT !.y_pred = p, !.y_true = t] :
                     p \in PredAngles, t \in TrueAngles}
    /\ fout = NoResult
    /\ PipelineIdle
    /\ AlignIdle
    /\ MainIdle

ComputeError ==
    /\ fpc = "pair"
    /\ fpc' = "y_error"
    /\ fout' = [NoResult EXCEPT
                   !.err = SingleTrialError(ana, fargs.y_pred, fargs.y_true)]
    /\ UNCHANGED <<events, ana, fargs>>
    /\ UNCHANGED pvars
    /\ UNCHANGED avars
    /\ UNCHANGED mvars

ErrNext == ComputeError

SpecErr == ErrInit /\ [][ErrNext]_vars

-----------------------------------------------------------------------------
(* Alignment harness: the alignment step of _duration_toi is applied to a  *)
(* subject's score matrix, and once more to its own output, a matrix whose *)
(* diagonal is already at the centre column.                               *)

NTimes == 3

\* len(times)
Times == 1..NTimes

\* the scores a cell of a drawn matrix takes
CellScores == {0, 1}

\* np.roll(row, shift): a circular shift to the right
Roll(row, shift) ==
    Array([j \in 1..Len(row) |->
              row[((j - 1 - shift + 2 * Len(row)) % Len(row)) + 1]])

\* a shift of the row to the left whose vacated cells are left undefined
ShiftPadded(row, shift) ==
    Array([j \in 1..Len(row) |->
              IF j + shift <= Len(row) THEN row[j + shift] ELSE NaN])

\* the policies by which align_on_diag moves row ii by ii cells to the left
FillPolicies == {"circular", "padded"}

\* align_on_diag(score): row ii is moved so that its diagonal cell is first
AlignOnDiag(matrix, fill) ==
    Array([i \in 1..Len(matrix) |->
              IF fill = "circular"
              THEN Roll(matrix[i], 0 - (i - 1))
              ELSE ShiftPadded(matrix[i], i - 1)])

\* np.roll(scores, len(times) // 2, axis=2), for one subject's matrix
CentreRoll(matrix) ==
    Array([i \in 1..Len(matrix) |-> Roll(matrix[i], Len(matrix) \div 2)])

\* lines 297-300 for one subject and one visibility level
AlignAndCentre(matrix, fill) == CentreRoll(AlignOnDiag(matrix, fill))

Matrices == [Times -> [Times -> CellScores]]

AlignInit ==
    /\ \E m \in Matrices : mat = Array([i \in Times |-> Array(m[i])])
    /\ policy \in {[fill |-> f, passes |-> 0] : f \in FillPolicies}
    /\ centred = <<>>
    /\ events = <<>>
    /\ ana = ""
    /\ fpc = "idle"
    /\ fargs = NoArgs
    /\ fout = NoResult
    /\ PipelineIdle
    /\ MainIdle

\* the alignment step, applied to the drawn matrix and then to its own output
Align ==
    /\ policy.passes < 2
    /\ \E input \in {IF policy.passes = 0 THEN mat ELSE centred} :
          /\ mat' = input
          /\ centred' = AlignAndCentre(input, policy.fill)
    /\ policy' = [policy EXCEPT !.passes = @ + 1]
    /\ UNCHANGED fvars
    /\ UNCHANGED pvars
    /\ UNCHANGED mvars

AlignNext == Align

SpecAlign == AlignInit /\ [][AlignNext]_vars

-----------------------------------------------------------------------------
(* Claims on the function-level harness                                    *)

\* the rows of a table at one level of a column
LevelRows(tbl, column, value) ==
    {i \in 1..Len(tbl) : Eq(Col(tbl[i], column), value)}

AbsentRows(tbl) == {i \in 1..Len(tbl) : ~tbl[i].target_present}

LabelsOf(tbl, name, rows) == {Col(tbl[i], name) : i \in rows}

NoRepeat(sel) == \A i, j \in 1..Len(sel) : sel[i] = sel[j] => i = j

\* C2: in both subscore paths and for every analysis, a level that itself
\* holds fewer than 5 trials yields a NaN cell, and a level of exactly 5
\* trials with two distinct labels is scored.
C2_MinTrialCount ==
    /\ fpc = "_subscore_pipeline" =>
          \A v \in 1..Len(VisLevels) :
             LET level == LevelRows(events, "detect_button", VisLevels[v])
             IN  /\ Cardinality(level) < 5 => fout.scores[v] = NaNCell
                 /\ (Cardinality(level) = 5
                     /\ Cardinality(LabelsOf(events, ana, level)) >= 2)
                       => fout.scores[v].scored
    /\ fpc = "_subscore" =>
          \A ii \in 1..Len(FactorValues(fargs.factor)) :
             LET level == LevelRows(events, FactorKey(fargs.factor),
                                    FactorValues(fargs.factor)[ii])
             IN  /\ Cardinality(level) < 5 => fout.scores[ii] = NaNCell
                 /\ (Cardinality(level) = 5
                     /\ Cardinality(LabelsOf(events, ana, level)) >= 2)
                       => fout.scores[ii].scored

\* the cells of the applied subscore function, by level: <<level rows, cell>>
ScoredLevels ==
    IF fpc = "_subscore_pipeline"
    THEN {<<LevelRows(events, "detect_button", VisLevels[v]), fout.scores[v]>> :
             v \in 1..Len(VisLevels)}
    ELSE IF fpc = "_subscore"
    THEN {<<LevelRows(events, FactorKey(fargs.factor), FactorValues(fargs.factor)[ii]),
            fout.scores[ii]>> : ii \in 1..Len(FactorValues(fargs.factor))}
    ELSE {}

\* C3: for target_present, the index list handed to the scorer for a level
\* is the set union of the level's trials and all absent-target trials, and
\* holds no trial twice.
C3_AbsentUnion ==
    ana = "target_present" =>
        \A lc \in ScoredLevels :
            lc[2].scored =>
                /\ Range(lc[2].sel) = lc[1] \cup AbsentRows(events)
                /\ NoRepeat(lc[2].sel)

\* C4: for the categorical analysis a subset with fewer than 2 distinct
\* labels yields a NaN cell (no scorer call) in both subscore paths; for the
\* circular analysis a level of at least 5 trials is scored whatever its
\* number of distinct labels.
C4_DistinctLabels ==
    \A lc \in ScoredLevels :
        /\ (ana = "target_present"
            /\ Cardinality(LabelsOf(events, ana,
                                    lc[1] \cup AbsentRows(events))) < 2)
              => lc[2] = NaNCell
        /\ (IsCirc(ana) /\ Cardinality(lc[1]) >= 5) => lc[2].scored

\* the second covariate of a factor, and its levels
OtherFactor(factor) == IF factor = "visibility" THEN "contrast" ELSE "visibility"

\* the eligible trials (target present, factor at or above its lowest level)
\* at one level of the second covariate
CovLevelRows(tbl, factor, level) ==
    {i \in 1..Len(tbl) :
        /\ tbl[i].target_present
        /\ Ge(Col(tbl[i], FactorKey(factor)), FactorValues(factor)[1])
        /\ Eq(Col(tbl[i], FactorKey(OtherFactor(factor))), level)}

ContributingLevels(tbl, factor) ==
    {level \in Range(FactorValues(OtherFactor(factor))) :
        Cardinality(CovLevelRows(tbl, factor, level)) >= 6}

\* C6: independent mode computes one correlation per level of the second
\* covariate (contrast levels for visibility, visibility levels for
\* contrast), each over the trials at that level, and averages them.
C6_PartitionByCovariate ==
    (fpc = "_subregress" /\ fargs.independent) =>
        {Range(fout.mean_of[r].sel) : r \in 1..Len(fout.mean_of)}
          = {CovLevelRows(events, fargs.factor, level) :
                level \in ContributingLevels(events, fargs.factor)}

\* C7: in independent mode a covariate level of 5 or fewer eligible trials
\* contributes no row and one of 6 or more exactly one; the result is the
\* mean over the contributing levels and NaN, not an error, when there is
\* none.
C7_SkipSmallLevels ==
    (fpc = "_subregress" /\ fargs.independent) =>
        /\ fout.exc = "none"
        /\ Len(fout.mean_of)
             = Cardinality(ContributingLevels(events, fargs.factor))
        /\ fout.nan = (ContributingLevels(events, fargs.factor) = {})

\* C8: for a circular analysis the single-trial error is pi for true = 0 and
\* predicted = pi, 0 for predicted = true, and always within [0, pi].
C8_CircularErrorSymmetry ==
    (fpc = "y_error" /\ IsCirc(ana)) =>
        /\ (fargs.y_true = 0 /\ fargs.y_pred = HalfTurn) => fout.err = HalfTurn
        /\ fargs.y_pred = fargs.y_true => fout.err = 0
        /\ fout.err \in 0..HalfTurn

-----------------------------------------------------------------------------
(* Claims on the pipeline                                                  *)

\* C1: a _run whose selection is empty returns normally and saves neither
\* the 'decod' artifact nor the 'score' bundle: the store is left unchanged.
C1_EmptySelection ==
    [][(runlast' # runlast /\ runlast'.nsel = 0)
          => /\ runlast'.exc = "none"
             /\ ~runlast'.saved
             /\ decod' = decod
             /\ score' = score
             /\ derived' = derived]_vars

C1_Witness ==
    /\ runlast.called
    /\ runlast.nsel = 0
    /\ ~decod[runlast.subject][runlast.analysis].exists
    /\ ~score[runlast.subject][runlast.analysis].exists

\* the derivation that saves under a suffix
SavedBy(d) ==
    CASE d = "-vis" -> "_subscore_pipeline"
      [] d = "-continuous" -> "_analyze_continuous"
      [] d = "-toi" -> "_analyze_toi"
      [] d = "-Rvis" -> "_correlate"
      [] d = "-duration-toi" -> "_duration_toi"

\* the step is a call of the derivation of suffix d for the analysis
Calls(d, name) ==
    last' # last /\ last'.fn = SavedBy(d) /\ last'.analysis = name

GatLoads(call) == {l \in call.loads : l[1] = "decod"}

\* C9: a derivation called while its artifact exists returns the stored
\* artifact, loads no GAT artifact and saves nothing; a stored derived
\* artifact is therefore written once and never changes.
C9_IdempotentCaching ==
    [][\A name \in Range(PlotAnalyses), d \in Derivations :
          derived[name][d].exists =>
             /\ derived'[name][d] = derived[name][d]
             /\ Calls(d, name) =>
                   /\ last'.outcome = "hit"
                   /\ last'.ret = derived[name][d]
                   /\ GatLoads(last') = {}
                   /\ last'.saves = {}]_vars

C9_Witness ==
    /\ last.outcome = "hit"
    /\ last.ret = derived[last.analysis]["-continuous"]
    /\ last.fn = "_analyze_continuous"

GatDerivations == {"-vis", "-continuous", "-toi", "-Rvis"}

\* C10: a derivation over the GAT artifacts, called on a cache miss while
\* some subject's artifact is missing, fails with the load's error and
\* saves nothing; no stored derivation lacks a subject's GAT artifact.
C10_MissingArtifact ==
    /\ [](\A name \in Range(PlotAnalyses), d \in GatDerivations :
             derived[name][d].exists =>
                /\ \A s \in Subjects : decod[s][name].exists
                /\ Len(derived[name][d].rows) = NSubjects)
    /\ [][\A name \in Range(PlotAnalyses), d \in GatDerivations :
             (/\ Calls(d, name)
              /\ ~derived[name][d].exists
              /\ \E s \in Subjects : ~decod[s][name].exists)
                => /\ last'.outcome = "raised"
                   /\ last'.exc = "IOError"
                   /\ last'.saves = {}
                   /\ derived' = derived]_vars

C10_Witness ==
    /\ last.outcome = "raised"
    /\ last.exc = "IOError"
    /\ last.fn = "_correlate"
    /\ decod[1][last.analysis].exists
    /\ \E s \in Subjects : ~decod[s][last.analysis].exists
    /\ ~derived[last.analysis]["-Rvis"].exists

\* run_decoding.py has gone through every subject and analysis
DecodingDone == runpc.s > NSubjects

\* C11: an empty selection for one (subject, analysis) pair leaves every
\* other pair run and saved, and a derivation over the GAT artifacts called
\* after the decoding, with some subject's artifact stored, still produces
\* its derived scores from the subjects that have one.
C11_FailureIsolation ==
    /\ [](DecodingDone =>
             \A s \in Subjects, name \in Range(Analyses) :
                Len(Sel(evts[s], name)) > 0 =>
                   decod[s][name].exists /\ score[s][name].exists)
    /\ [][\A name \in Range(PlotAnalyses), d \in GatDerivations :
             (/\ Calls(d, name)
              /\ DecodingDone
              /\ ~derived[name][d].exists
              /\ \E s \in Subjects : decod[s][name].exists)
                => /\ last'.outcome = "computed"
                   /\ derived'[name][d].exists]_vars

\* the position of an analysis in the loop of run_decoding.py
AnalysisIndex(name) == CHOOSE a \in 1..Len(Analyses) : Analyses[a] = name

\* _run has been called for the subject and the analysis
HasRun(s, name) ==
    runpc.s > s \/ (runpc.s = s /\ runpc.a > AnalysisIndex(name))

\* what run_decoding.py has written for the subject and the analysis
WrittenByRun(s, name) ==
    IF HasRun(s, name) /\ Len(Sel(evts[s], name)) > 0
    THEN DecodArtifact(evts[s], name, Sel(evts[s], name))
    ELSE NoDecod

\* C13: no derivation saves to the 'decod' kind: a step that is not a step
\* of run_decoding.py leaves every 'decod' artifact as it is, and the stored
\* artifacts are always exactly what run_decoding.py wrote.
C13_DecodReadOnly ==
    /\ [](\A s \in Subjects, name \in Range(Analyses) :
             decod[s][name] = WrittenByRun(s, name))
    /\ [][runpc' = runpc => decod' = decod]_vars

C13_Witness ==
    /\ last.fn = "_correlate"
    /\ last.outcome = "computed"
    /\ derived[last.analysis]["-vis"].exists
    /\ \E s \in Subjects :
          /\ decod[s][last.analysis].exists
          /\ PresentPredictions(decod[s][last.analysis])
                < decod[s][last.analysis].y_pred

\* C14: the stored GAT artifact of every analysis the derivations read
\* (target_present, target_circAngle) holds its single-trial predictions,
\* and every stored GAT artifact, pruned or not, comes with the score bundle
\* of the same subject and analysis, scored over all the selected trials.
C14_PruningLosesNothing ==
    \A s \in Subjects, name \in Range(Analyses) :
        decod[s][name].exists =>
            /\ name \in Range(PlotAnalyses) =>
                  decod[s][name].y_pred = Len(decod[s][name].sel)
            /\ score[s][name].exists
            /\ score[s][name].scored = decod[s][name].sel

C14_Witness ==
    \E s \in Subjects :
        /\ decod[s]["probe_phase"].exists
        /\ decod[s]["probe_phase"].y_pred = NaN
        /\ ~decod[s]["target_present"].estimators
        /\ decod[s]["target_present"].y_pred > 0
        /\ score[s]["probe_phase"].exists

\* the rows of the predictions of a stored artifact that are of
\* target-present trials, by the metadata of the trial each row predicts
PresentPredictionRows(s, name) ==
    Ascending({k \in 1..Len(decod[s][name].trials) :
                  evts[s][decod[s][name].trials[k]].target_present})

\* C15: the list _run selects the trials and labels with at fit and score is
\* the list it persists, next to the whole metadata; a consumer's metadata
\* row k is that of the trial predicted at row k, so that _correlate's
\* present-only subset pairs each prediction with its own trial's report.
C15_TrialMetadataAlignment ==
    /\ \A s \in Subjects, name \in Range(Analyses) :
          decod[s][name].exists =>
             /\ decod[s][name].sel = decod[s][name].trials
             /\ decod[s][name].sel = score[s][name].scored
             /\ decod[s][name].events = evts[s]
             /\ decod[s][name].y_pred \in {NaN, Len(decod[s][name].sel)}
    /\ \A name \in Range(PlotAnalyses) :
          derived[name]["-Rvis"].exists =>
             \A s \in Subjects :
                derived[name]["-Rvis"].rows[s].R[1].mean_of[1].sel
                   = PresentPredictionRows(s, name)

C15_Witness ==
    /\ derived["target_circAngle"]["-Rvis"].exists
    /\ derived["target_present"]["-Rvis"].exists
    /\ \E s \in Subjects :
          /\ decod[s]["target_circAngle"].sel # decod[s]["target_present"].sel
          /\ decod[s]["target_circAngle"].sel[1] > 1
          /\ PresentPredictionRows(s, "target_present") # <<>>

\* the trial has a defined label for the analysis
Labelled(s, name, i) == Col(evts[s][i], AnalysisCondition(name)) # NaN

\* C16: every trial _run fits and scores satisfies the query of the
\* analysis and has a label that is not NaN, and no trial that satisfies
\* the query and has a defined label is left out.
C16_NaNLabelExclusion ==
    \A s \in Subjects, name \in Range(Analyses) :
        HasRun(s, name) =>
            /\ \A k \in 1..Len(decod[s][name].trials) :
                  /\ AnalysisQuery(name, evts[s][decod[s][name].trials[k]])
                  /\ Labelled(s, name, decod[s][name].trials[k])
            /\ \A i \in Rows(evts[s]) :
                  (AnalysisQuery(name, evts[s][i]) /\ Labelled(s, name, i))
                     => i \in Range(decod[s][name].trials)
            /\ score[s][name].scored = decod[s][name].trials

C16_Witness ==
    \E s \in Subjects :
        /\ HasRun(s, "target_circAngle")
        /\ decod[s]["target_circAngle"].trials # <<>>
        /\ \E i \in Rows(evts[s]) :
              /\ AnalysisQuery("target_circAngle", evts[s][i])
              /\ ~Labelled(s, "target_circAngle", i)
        /\ \E i \in Rows(evts[s]) : ~AnalysisQuery("target_circAngle", evts[s][i])

-----------------------------------------------------------------------------
(* Claims on the derivations over a store as found                         *)

Mismatched(name) ==
    \E s \in Subjects : decod[s][name].y_pred # Len(decod[s][name].sel)

\* C5: when a subject's predictions and selected trials differ in number,
\* _analyze_continuous and _analyze_toi fail (with _subregress's ValueError
\* unless _subscore's indexing fails first) and save nothing; when they
\* agree for every subject no ValueError is raised.
C5_DimensionMismatch ==
    [][\A name \in Range(PlotAnalyses), d \in {"-continuous", "-toi"} :
          (Calls(d, name) /\ ~derived[name][d].exists) =>
             /\ Mismatched(name) =>
                   /\ last'.outcome = "raised"
                   /\ last'.exc \in {"ValueError", "IndexError"}
                   /\ last'.saves = {}
                   /\ derived' = derived
             /\ ~Mismatched(name) =>
                   /\ last'.outcome = "computed"
                   /\ last'.exc = "none"]_vars

C5_Witness ==
    /\ last.outcome = "raised"
    /\ last.exc = "ValueError"
    /\ last.fn = "_analyze_toi"
    /\ Mismatched(last.analysis)
    /\ ~derived[last.analysis]["-toi"].exists

-----------------------------------------------------------------------------
(* Claims on the alignment harness                                         *)

\* C12: the alignment step of _duration_toi applied to a matrix whose
\* diagonal is already at the centre column, the output of a first
\* alignment, returns that matrix cell for cell.
C12_AlignmentNoOp == policy.passes = 2 => centred = mat

\* the running iteration has gone past the statement
Past(step) == mainpc # "idle" /\ StepIndex(mainpc) > StepIndex(step)

\* C17: in the main loop, _duration_toi is only reached with the '-vis'
\* artifact of the same analysis written, by _subscore_pipeline earlier in the
\* iteration or by a previous run, so its load of '-vis' never fails.
C17_DerivationOrdering ==
    [][(mainpc = "_duration_toi" /\ mainpc' # mainpc)
          => /\ derived[Current]["-vis"].exists
             /\ last'.fn = "_duration_toi"
             /\ last'.outcome \in {"hit", "computed"}]_vars

\* _duration_toi computed the duration artifact in the main loop, from the
\* '-vis' artifact it loaded
C17_Witness ==
    /\ mainpc = "_correlate"
    /\ last.fn = "_duration_toi"
    /\ last.outcome = "computed"
    /\ <<"score", 0>> \in last.loads
    /\ derived[Current]["-duration-toi"].exists

\* C18: for a circAngle analysis every reported array is halved exactly once:
\* the plotted subscores, the durations, the time-frequency scores, the TOI
\* subscores for visibility and for contrast, and the subscores entering the
\* model statistics, which carry the scaling of the plotted ones.
C18_UniformRescaling ==
    IsCirc(Current) =>
        /\ Past("_subscore_pipeline") => mem.plotted = 1
        /\ Past("_duration_toi") => mem.all_durations = 1
        /\ mem.tfr \in {0, 1}
        /\ Past("_analyze_toi") => mem.toi_visibility = 1 /\ mem.toi_contrast = 1
        /\ Past("_correlate:stats") => mem.all_scores = mem.plotted

====
